---- MODULE Spec2Model ----
(***************************************************************************)
(* Model of internal/cmd/shim.go: the translation of a compiled model      *)
(* (catalog + queries) and the combined settings into a plugin             *)
(* CodeGenRequest.                                                         *)
(*                                                                         *)
(* Representation of Go values:                                            *)
(*  - a struct is a record with the Go field names;                        *)
(*  - a pointer that may be nil (to an int, Identifier, Process, WASM) is a *)
(*    sequence: <<>> is nil, <<v>> points at v.  A pointer the translator  *)
(*    allocates itself (&plugin.X{...}) is the record it points at;        *)
(*  - a map or a slice that the translator passes on without copying       *)
(*    (Go reference semantics) is an address into `heap`; "nil" is the nil *)
(*    map / nil slice;                                                     *)
(*  - a slice the translator builds with append from a nil slice is a      *)
(*    sequence;                                                            *)
(*  - the override column path, which is split on ".", and the strings it  *)
(*    meets are sequences of one-character strings; other strings are      *)
(*    atoms;                                                               *)
(*  - a Go int (64 bit) is four 16-bit limbs, least significant first,     *)
(*    in two's complement; an int32 is an integer in -2^31 .. 2^31-1.      *)
(***************************************************************************)
EXTENDS Integers, Sequences, FiniteSets, TLC

VARIABLES
    r,            \* *compiler.Result: [Catalog, Queries]
    settings,     \* config.CombinedSettings
    heap,         \* contents of the maps and slices shared by reference
    marshalErrs,  \* the type descriptors for which json.Marshal returns an error
    convertErrs,  \* the option blobs for which convert.YAMLtoJSON returns an error
    outs,         \* the *plugin.CodeGenRequest returned by each invocation so far
    pc            \* "running", or "aborted" once an invocation has panicked

vars == <<r, settings, heap, marshalErrs, convertErrs, outs, pc>>

----------------------------------------------------------------------------
(* Bounds of the model *)

MaxInvocations == 2     \* invocations of codeGenRequest on the same input
MaxPathLen == 7         \* characters of an override column path
MaxPlugins == 2         \* entries of the global plugin registry
MaxSeq == 2             \* elements of a sequence of the compiled model

----------------------------------------------------------------------------
(* Go values *)

Nil == "nil"

\* A Go int from a small natural number.
I64(n) == <<n, 0, 0, 0>>

\* The Go int -1.
MinusOne == <<65535, 65535, 65535, 65535>>

\* The conversion int32(x) of a Go int: the low 32 bits, read as signed.
Int32(x) == x[1] + 65536 * (IF x[2] >= 32768 THEN x[2] - 65536 ELSE x[2])

\* The Go int that holds the int32 v (sign extension).
FromInt32(v) ==
    LET lo == v % 65536
        hi == ((v - lo) \div 65536) % 65536
        s  == IF v < 0 THEN 65535 ELSE 0
    IN <<lo, hi, s, s>>

\* x >= 0 for a Go int.
NonNegative(x) == x[4] < 32768

EmptyIdentifier == [Catalog |-> <<>>, Schema |-> <<>>, Name |-> <<>>]

----------------------------------------------------------------------------
(* strings.Split(s, ".") *)

DotIndexes(s) == {i \in 1..Len(s) : s[i] = "."}

FirstDot(s) == CHOOSE i \in DotIndexes(s) : \A j \in DotIndexes(s) : i <= j

RECURSIVE Split(_)
Split(s) ==
    IF DotIndexes(s) = {}
    THEN <<s>>
    ELSE <<SubSeq(s, 1, FirstDot(s) - 1)>> \o Split(SubSeq(s, FirstDot(s) + 1, Len(s)))

----------------------------------------------------------------------------
(* Library calls: their result is a value and an error *)

\* json.Marshal of a *goopts.ParsedGoType.
JsonMarshal(v, errs) ==
    IF v \in errs
    THEN [err |-> TRUE, val |-> <<>>]
    ELSE [err |-> FALSE, val |-> <<"json", v>>]

\* convert.YAMLtoJSON of the options node.
YAMLtoJSON(n, errs) ==
    IF n \in errs
    THEN [err |-> TRUE, val |-> <<>>]
    ELSE [err |-> FALSE, val |-> <<"json", n>>]

----------------------------------------------------------------------------
(* Settings translation *)

pluginGoType(o) ==
    [ImportPath |-> o.GoImportPath,
     Package    |-> o.GoPackage,
     TypeName   |-> o.GoTypeName,
     BasicType  |-> o.GoBasicType,
     StructTags |-> o.GoStructTags]

\* A faulty variant of OverrideTarget: a two-segment path does not take the
\* catalog's default schema.
OverrideTargetNoDefault(defaultSchema, path) ==
    LET colParts == Split(path)
        none     == [column |-> <<>>, table |-> EmptyIdentifier]
    IN IF path = <<>>
       THEN none
       ELSE CASE Len(colParts) = 2 ->
                   [column |-> colParts[2],
                    table  |-> [Catalog |-> <<>>,
                                Schema  |-> <<>>,
                                Name    |-> colParts[1]]]
              [] Len(colParts) = 3 ->
                   [column |-> colParts[3],
                    table  |-> [Catalog |-> <<>>,
                                Schema  |-> colParts[1],
                                Name    |-> colParts[2]]]
              [] Len(colParts) = 4 ->
                   [column |-> colParts[4],
                    table  |-> [Catalog |-> colParts[1],
                                Schema  |-> colParts[2],
                                Name    |-> colParts[3]]]
              [] OTHER -> none

\* The (column, table) pair that the switch on len(colParts) leaves behind.
OverrideTarget(defaultSchema, path) ==
    LET colParts == Split(path)
        none     == [column |-> <<>>, table |-> EmptyIdentifier]
    IN IF path = <<>>
       THEN none
       ELSE CASE Len(colParts) = 2 ->
                   [column |-> colParts[2],
                    table  |-> [Catalog |-> <<>>,
                                Schema  |-> defaultSchema,
                                Name    |-> colParts[1]]]
              [] Len(colParts) = 3 ->
                   [column |-> colParts[3],
                    table  |-> [Catalog |-> <<>>,
                                Schema  |-> colParts[1],
                                Name    |-> colParts[2]]]
              [] Len(colParts) = 4 ->
                   [column |-> colParts[4],
                    table  |-> [Catalog |-> colParts[1],
                                Schema  |-> colParts[2],
                                Name    |-> colParts[3]]]
              [] OTHER -> none

\* [panic, val]: panic is TRUE when json.Marshal fails.
pluginOverride(res, o, mErrs) ==
    LET target     == OverrideTarget(res.Catalog.DefaultSchema, o.Column)
        goTypeJSON == JsonMarshal(pluginGoType(o), mErrs)
    IN [panic |-> goTypeJSON.err,
        val   |-> [CodeType   |-> goTypeJSON.val,
                   DbType     |-> o.DBType,
                   Nullable   |-> o.Nullable,
                   Unsigned   |-> o.Unsigned,
                   Column     |-> o.Column,
                   ColumnName |-> target.column,
                   Table      |-> target.table]]

pluginProcess(p) ==
    IF p.Process # <<>> THEN <<[Cmd |-> p.Process[1].Cmd]>> ELSE <<>>

pluginWASM(p) ==
    IF p.WASM # <<>>
    THEN <<[Url |-> p.WASM[1].URL, Sha256 |-> p.WASM[1].SHA256]>>
    ELSE <<>>

\* A faulty variant of ScanPlugins: the loop does not return at a match, so
\* that a later entry of the same name overwrites Env, Process and Wasm.
RECURSIVE ScanPluginsNoReturn(_, _, _, _)
ScanPluginsNoReturn(plugins, i, s, cg) ==
    IF i > Len(plugins)
    THEN cg
    ELSE IF plugins[i].Name = s.Plugin
         THEN ScanPluginsNoReturn(plugins, i + 1, s,
                  [cg EXCEPT !.Env     = plugins[i].Env,
                             !.Process = pluginProcess(plugins[i]),
                             !.Wasm    = pluginWASM(plugins[i])])
         ELSE ScanPluginsNoReturn(plugins, i + 1, s, cg)

\* The loop over cs.Global.Plugins from entry i on: the first entry named like
\* the requested plugin fills cg and ends the loop.
RECURSIVE ScanPlugins(_, _, _, _)
ScanPlugins(plugins, i, s, cg) ==
    IF i > Len(plugins)
    THEN cg
    ELSE IF plugins[i].Name = s.Plugin
         THEN [cg EXCEPT !.Env     = plugins[i].Env,
                         !.Process = pluginProcess(plugins[i]),
                         !.Wasm    = pluginWASM(plugins[i])]
         ELSE ScanPlugins(plugins, i + 1, s, cg)

\* A faulty variant of pluginCodegen: the error of convert.YAMLtoJSON is
\* dropped.
pluginCodegenIgnoringErr(cs, s, cErrs) ==
    LET opts == YAMLtoJSON(s.Options, cErrs)
        cg   == [Out     |-> s.Out,
                 Plugin  |-> s.Plugin,
                 Options |-> opts.val,
                 Env     |-> Nil,
                 Process |-> <<>>,
                 Wasm    |-> <<>>]
    IN [panic |-> FALSE,
        val   |-> ScanPlugins(cs.Global.Plugins, 1, s, cg)]

\* [panic, val]: panic is TRUE when convert.YAMLtoJSON fails.
pluginCodegen(cs, s, cErrs) ==
    LET opts == YAMLtoJSON(s.Options, cErrs)
        cg   == [Out     |-> s.Out,
                 Plugin  |-> s.Plugin,
                 Options |-> opts.val,
                 Env     |-> Nil,
                 Process |-> <<>>,
                 Wasm    |-> <<>>]
    IN [panic |-> opts.err,
        val   |-> ScanPlugins(cs.Global.Plugins, 1, s, cg)]

pluginSettings(res, cs, mErrs, cErrs) ==
    LET overrides == [i \in 1..Len(cs.Overrides) |->
                          pluginOverride(res, cs.Overrides[i], mErrs)]
        codegen   == pluginCodegen(cs, cs.Codegen, cErrs)
    IN [panic |-> \/ \E i \in 1..Len(overrides) : overrides[i].panic
                  \/ codegen.panic,
        val   |-> [Version   |-> cs.Global.Version,
                   Engine    |-> cs.Package.Engine,
                   Schema    |-> cs.Package.Schema,
                   Queries   |-> cs.Package.Queries,
                   Overrides |-> [i \in 1..Len(overrides) |-> overrides[i].val],
                   Rename    |-> cs.Rename,
                   Codegen   |-> codegen.val]]

----------------------------------------------------------------------------
(* Catalog translation *)

pluginIdentifier(id) ==
    [Catalog |-> id.Catalog, Schema |-> id.Schema, Name |-> id.Name]

\* l := -1; if c.Length != nil { l = *c.Length }
LengthOrMinusOne(c) == IF c.Length # <<>> THEN c.Length[1] ELSE MinusOne

pluginCatalogColumn(t, c) ==
    [Name      |-> c.Name,
     Type      |-> <<pluginIdentifier(c.Type)>>,
     Comment   |-> c.Comment,
     NotNull   |-> c.IsNotNull,
     Unsigned  |-> c.IsUnsigned,
     IsArray   |-> c.IsArray,
     ArrayDims |-> Int32(c.ArrayDims),
     Length    |-> Int32(LengthOrMinusOne(c)),
     Table     |-> <<pluginIdentifier(t.Rel)>>]

\* A faulty variant of pluginTable: each column is put in front of the
\* columns translated so far.
pluginTablePrepending(t) ==
    LET column(c) == pluginCatalogColumn(t, c)
        n == Len(t.Columns)
    IN [Rel     |-> pluginIdentifier(t.Rel),
        Columns |-> [i \in 1..n |-> column(t.Columns[n + 1 - i])],
        Comment |-> t.Comment]

pluginTable(t) ==
    LET column(c) == pluginCatalogColumn(t, c)
    IN [Rel     |-> pluginIdentifier(t.Rel),
        Columns |-> [i \in 1..Len(t.Columns) |-> column(t.Columns[i])],
        Comment |-> t.Comment]

pluginEnum(typ) == [Name |-> typ.Name, Comment |-> typ.Comment, Vals |-> typ.Vals]

pluginCompositeType(typ) == [Name |-> typ.Name, Comment |-> typ.Comment]

IsEnum(typ) == typ.kind = "Enum"

IsCompositeType(typ) == typ.kind = "CompositeType"

pluginSchema(s) ==
    LET enums == SelectSeq(s.Types, IsEnum)
        cts   == SelectSeq(s.Types, IsCompositeType)
    IN [Comment        |-> s.Comment,
        Name           |-> s.Name,
        Tables         |-> [i \in 1..Len(s.Tables) |-> pluginTable(s.Tables[i])],
        Enums          |-> [i \in 1..Len(enums) |-> pluginEnum(enums[i])],
        CompositeTypes |-> [i \in 1..Len(cts) |-> pluginCompositeType(cts[i])]]

pluginCatalog(c) ==
    [Name          |-> c.Name,
     DefaultSchema |-> c.DefaultSchema,
     Comment       |-> c.Comment,
     Schemas       |-> [i \in 1..Len(c.Schemas) |-> pluginSchema(c.Schemas[i])]]

----------------------------------------------------------------------------
(* Query translation *)

\* A faulty variant of pluginQueryColumn: an unresolved type falls back to
\* the column's name instead of its raw datatype.
pluginQueryColumnNameFallback(c) ==
    [Name         |-> c.Name,
     OriginalName |-> c.OriginalName,
     Comment      |-> c.Comment,
     NotNull      |-> c.NotNull,
     Unsigned     |-> c.Unsigned,
     IsArray      |-> c.IsArray,
     ArrayDims    |-> Int32(c.ArrayDims),
     Length       |-> Int32(LengthOrMinusOne(c)),
     IsNamedParam |-> c.IsNamedParam,
     IsFuncCall   |-> c.IsFuncCall,
     IsSqlcSlice  |-> c.IsSqlcSlice,
     Type         |-> IF c.Type # <<>>
                      THEN <<pluginIdentifier(c.Type[1])>>
                      ELSE <<[Catalog |-> "", Schema |-> "", Name |-> c.Name]>>,
     Table        |-> IF c.Table # <<>>
                      THEN <<pluginIdentifier(c.Table[1])>>
                      ELSE <<>>,
     EmbedTable   |-> IF c.EmbedTable # <<>>
                      THEN <<pluginIdentifier(c.EmbedTable[1])>>
                      ELSE <<>>]

pluginQueryColumn(c) ==
    [Name         |-> c.Name,
     OriginalName |-> c.OriginalName,
     Comment      |-> c.Comment,
     NotNull      |-> c.NotNull,
     Unsigned     |-> c.Unsigned,
     IsArray      |-> c.IsArray,
     ArrayDims    |-> Int32(c.ArrayDims),
     Length       |-> Int32(LengthOrMinusOne(c)),
     IsNamedParam |-> c.IsNamedParam,
     IsFuncCall   |-> c.IsFuncCall,
     IsSqlcSlice  |-> c.IsSqlcSlice,
     Type         |-> IF c.Type # <<>>
                      THEN <<pluginIdentifier(c.Type[1])>>
                      ELSE <<[Catalog |-> "", Schema |-> "", Name |-> c.DataType]>>,
     Table        |-> IF c.Table # <<>>
                      THEN <<pluginIdentifier(c.Table[1])>>
                      ELSE <<>>,
     EmbedTable   |-> IF c.EmbedTable # <<>>
                      THEN <<pluginIdentifier(c.EmbedTable[1])>>
                      ELSE <<>>]

pluginQueryParam(p) ==
    [Number |-> Int32(p.Number), Column |-> pluginQueryColumn(p.Column)]

\* A faulty variant of pluginQuery: the insert target is allocated whether or
\* not the source query has one.
pluginQueryAlwaysTarget(q) ==
    [Name            |-> q.Metadata.Name,
     Cmd             |-> q.Metadata.Cmd,
     Text            |-> q.SQL,
     Comments        |-> q.Metadata.Comments,
     Columns         |-> [i \in 1..Len(q.Columns) |-> pluginQueryColumn(q.Columns[i])],
     Params          |-> [i \in 1..Len(q.Params) |-> pluginQueryParam(q.Params[i])],
     Filename        |-> q.Metadata.Filename,
     InsertIntoTable |-> IF q.InsertIntoTable # <<>>
                         THEN <<pluginIdentifier(q.InsertIntoTable[1])>>
                         ELSE <<[Catalog |-> "", Schema |-> "", Name |-> ""]>>]

pluginQuery(q) ==
    [Name            |-> q.Metadata.Name,
     Cmd             |-> q.Metadata.Cmd,
     Text            |-> q.SQL,
     Comments        |-> q.Metadata.Comments,
     Columns         |-> [i \in 1..Len(q.Columns) |-> pluginQueryColumn(q.Columns[i])],
     Params          |-> [i \in 1..Len(q.Params) |-> pluginQueryParam(q.Params[i])],
     Filename        |-> q.Metadata.Filename,
     InsertIntoTable |-> IF q.InsertIntoTable # <<>>
                         THEN <<pluginIdentifier(q.InsertIntoTable[1])>>
                         ELSE <<>>]

pluginQueries(res) == [i \in 1..Len(res.Queries) |-> pluginQuery(res.Queries[i])]

----------------------------------------------------------------------------
(* Request assembly *)

\* info.Version
Version == "info.Version"

\* [panic, val]: panic is TRUE when the settings translation panics.
codeGenRequest(res, cs, mErrs, cErrs) ==
    LET s == pluginSettings(res, cs, mErrs, cErrs)
    IN [panic |-> s.panic,
        val   |-> [Settings    |-> s.val,
                   Catalog     |-> pluginCatalog(res.Catalog),
                   Queries     |-> pluginQueries(res),
                   SqlcVersion |-> Version]]

----------------------------------------------------------------------------
(* Memory shared by reference *)

Range(s) == {s[i] : i \in DOMAIN s}

EnumsOf(schemas) ==
    UNION {Range(SelectSeq(schemas[i].Types, IsEnum)) : i \in DOMAIN schemas}

\* The maps and slices reachable from the compiled model and the settings.
RefsOfInput(res, cs) ==
    ({cs.Package.Schema, cs.Package.Queries, cs.Rename}
       \cup {p.Env : p \in Range(cs.Global.Plugins)}
       \cup {typ.Vals : typ \in EnumsOf(res.Catalog.Schemas)}
       \cup {q.Metadata.Comments : q \in Range(res.Queries)}) \ {Nil}

\* The maps and slices reachable from a CodeGenRequest.
RefsOfRequest(req) ==
    ({req.Settings.Schema, req.Settings.Queries, req.Settings.Rename,
      req.Settings.Codegen.Env}
       \cup UNION {{e.Vals : e \in Range(req.Catalog.Schemas[i].Enums)} :
                     i \in DOMAIN req.Catalog.Schemas}
       \cup {q.Comments : q \in Range(req.Queries)}) \ {Nil}

\* What the holder of a set of references sees through them.
View(refs) == [a \in refs |-> heap[a]]

InputView == View(RefsOfInput(r, settings))

OutputView(i) == View(RefsOfRequest(outs[i]))

Overwritten == "overwritten"

----------------------------------------------------------------------------
(* Operations *)

\* A faulty variant of CodeGenRequest: the translation empties the rename
\* map of the settings after copying its reference.
CodeGenRequestClearingRename ==
    /\ pc = "running"
    /\ Len(outs) < MaxInvocations
    /\ LET res == codeGenRequest(r, settings, marshalErrs, convertErrs)
       IN IF res.panic
          THEN pc' = "aborted" /\ outs' = outs
          ELSE pc' = pc /\ outs' = Append(outs, res.val)
    /\ heap' = IF settings.Rename = Nil
               THEN heap
               ELSE [heap EXCEPT ![settings.Rename] = <<>>]
    /\ UNCHANGED <<r, settings, marshalErrs, convertErrs>>

\* One invocation of codeGenRequest(r, settings): it returns a request, or
\* panics, which ends the process.
CodeGenRequest ==
    /\ pc = "running"
    /\ Len(outs) < MaxInvocations
    /\ LET res == codeGenRequest(r, settings, marshalErrs, convertErrs)
       IN IF res.panic
          THEN pc' = "aborted" /\ outs' = outs
          ELSE pc' = pc /\ outs' = Append(outs, res.val)
    /\ UNCHANGED <<r, settings, heap, marshalErrs, convertErrs>>

\* The holder of a returned request writes an element of a map or slice that
\* it reaches from the request.
MutateOutput ==
    /\ pc = "running"
    /\ \E i \in 1..Len(outs) :
         \E a \in RefsOfRequest(outs[i]) :
           \E k \in DOMAIN heap[a] :
             /\ heap[a][k] # Overwritten
             /\ heap' = [heap EXCEPT ![a][k] = Overwritten]
    /\ UNCHANGED <<r, settings, marshalErrs, convertErrs, outs, pc>>

Next == CodeGenRequest \/ MutateOutput

----------------------------------------------------------------------------
(* Inputs *)

SeqsUpTo(S, n) == UNION {[1..k -> S] : k \in 0..n}

Ident(c, s, n) == [Catalog |-> c, Schema |-> s, Name |-> n]

\* Declared lengths: around 0, around the int32 limits and beyond 32 bits.
Lengths ==
    {I64(0), I64(1), I64(255),
     <<65535, 32767, 0, 0>>,     \* 2^31 - 1
     <<0, 32768, 0, 0>>,         \* 2^31
     <<65535, 65535, 0, 0>>,     \* 2^32 - 1
     <<0, 0, 1, 0>>,             \* 2^32
     <<5, 0, 1, 0>>}             \* 2^32 + 5

OptLengths == {<<>>} \cup {<<n>> : n \in Lengths}

CatalogColumn(name, type, length) ==
    [Name |-> name, Type |-> Ident("", "", type), Comment |-> "",
     IsNotNull |-> TRUE, IsUnsigned |-> FALSE, IsArray |-> FALSE,
     ArrayDims |-> I64(0), Length |-> length]

CatalogTable(name, columns) ==
    [Rel |-> Ident("", "public", name), Columns |-> columns, Comment |-> ""]

CatalogEnum(name, vals) ==
    [kind |-> "Enum", Name |-> name, Comment |-> "", Vals |-> vals]

CatalogCompositeType(name) ==
    [kind |-> "CompositeType", Name |-> name, Comment |-> ""]

CatalogSchema(name, types, tables) ==
    [Name |-> name, Comment |-> "", Types |-> types, Tables |-> tables]

Catalog(defaultSchema, schemas) ==
    [Name |-> "", DefaultSchema |-> defaultSchema, Comment |-> "",
     Schemas |-> schemas]

QueryColumn(name, type, dataType, length) ==
    [Name |-> name, OriginalName |-> name, Comment |-> "", NotNull |-> TRUE,
     Unsigned |-> FALSE, IsArray |-> FALSE, ArrayDims |-> I64(0),
     Length |-> length, IsNamedParam |-> FALSE, IsFuncCall |-> FALSE,
     IsSqlcSlice |-> FALSE, Type |-> type, DataType |-> dataType,
     Table |-> <<Ident("", "public", "users")>>, EmbedTable |-> <<>>]

Parameter(number, column) == [Number |-> I64(number), Column |-> column]

Query(name, cmd, comments, columns, params, insertIntoTable) ==
    [SQL |-> name,
     Metadata |-> [Name |-> name, Cmd |-> cmd, Comments |-> comments,
                   Filename |-> "query.sql"],
     Columns |-> columns, Params |-> params,
     InsertIntoTable |-> insertIntoTable]

GoTypeA == [path |-> "time", pkg |-> "time", name |-> "Time"]

GoTypeB == [path |-> "", pkg |-> "", name |-> "int64"]

Override(column, goType) ==
    [Column |-> column, DBType |-> "", Nullable |-> FALSE, Unsigned |-> FALSE,
     GoImportPath |-> goType.path, GoPackage |-> goType.pkg,
     GoTypeName |-> goType.name, GoBasicType |-> goType.path = "",
     GoStructTags |-> <<>>]

Plugin(name, env, process, wasm) ==
    [Name |-> name, Env |-> env, Process |-> process, WASM |-> wasm]

CombinedSettings(plugins, overrides, plugin, options) ==
    [Global   |-> [Version |-> "2", Plugins |-> plugins],
     Package  |-> [Engine |-> "postgresql", Schema |-> "schema",
                   Queries |-> "queries"],
     Overrides |-> overrides,
     Rename   |-> "rename",
     Codegen  |-> [Out |-> "gen", Plugin |-> plugin, Options |-> options]]

\* The contents of every map and slice of the inputs.
Heap ==
    [a \in {"schema", "queries", "rename", "envA", "envB", "vals", "comments"} |->
       CASE a = "schema"   -> <<"schema.sql">>
         [] a = "queries"  -> <<"query.sql">>
         [] a = "rename"   -> [k \in {"id"} |-> "ID"]
         [] a = "envA"     -> <<"PATH">>
         [] a = "envB"     -> <<"HOME">>
         [] a = "vals"     -> <<"open">>
         [] a = "comments" -> <<"-- get">>]

public == <<"p">>

PluginA == Plugin("p", "envA", <<[Cmd |-> "sqlc-gen"]>>, <<>>)

PluginB == Plugin("q", "envB", <<>>, <<[URL |-> "https://x/p.wasm", SHA256 |-> "ab"]>>)

ColA == CatalogColumn("id", "int8", <<>>)

ColB == CatalogColumn("name", "varchar", <<I64(255)>>)

TabA == CatalogTable("users", <<ColA, ColB>>)

TabB == CatalogTable("orders", <<ColA>>)

EnumA == CatalogEnum("status", "vals")

EnumB == CatalogEnum("mood", Nil)

CompA == CatalogCompositeType("point")

SchA == CatalogSchema("public", <<EnumA, CompA>>, <<TabA, TabB>>)

SchB == CatalogSchema("audit", <<>>, <<TabB>>)

QColA == QueryColumn("id", <<Ident("", "", "int8")>>, "int8", <<>>)

QColB == QueryColumn("n", <<>>, "any", <<I64(1)>>)

QueryA ==
    Query("GetUser", ":one", "comments", <<QColA, QColB>>, <<Parameter(1, QColA)>>, <<>>)

QueryB ==
    Query("AddUser", ":exec", Nil, <<>>, <<Parameter(1, QColB), Parameter(2, QColA)>>,
          <<Ident("", "public", "users")>>)

QueryC ==
    Query("NewUser", ":one", Nil, <<QColA>>, <<>>, <<Ident("", "audit", "users")>>)

OvA == Override(<<"t", ".", "c">>, GoTypeA)

OvB == Override(<<"c">>, GoTypeB)

\* Settings whose schema and query glob lists are nil slices.
Bare(cs) == [cs EXCEPT !.Package.Schema = Nil, !.Package.Queries = Nil]

EmptyResult(defaultSchema) ==
    [Catalog |-> Catalog(defaultSchema, <<>>), Queries |-> <<>>]

Paths == SeqsUpTo({"a", "b", "."}, MaxPathLen)

PluginEntries ==
    {Plugin(name, env, process, wasm) :
       name \in {"p", "q"}, env \in {Nil, "envA", "envB"},
       process \in {<<>>, PluginA.Process}, wasm \in {<<>>, PluginB.WASM}}

\* Catalogs that vary the schemas, the types, the tables or the columns.
Catalogs ==
    {Catalog(public, ss) : ss \in SeqsUpTo({SchA, SchB}, MaxSeq)}
      \cup {Catalog(public, <<CatalogSchema("public", ts, <<TabB>>)>>) :
               ts \in SeqsUpTo({EnumA, EnumB, CompA}, MaxSeq)}
      \cup {Catalog(public, <<CatalogSchema("public", <<>>, ts)>>) :
               ts \in SeqsUpTo({TabA, TabB}, MaxSeq)}
      \cup {Catalog(public, <<SchB, CatalogSchema("public", <<>>,
                                                  <<CatalogTable("items", cs)>>)>>) :
               cs \in SeqsUpTo({ColA, ColB}, MaxSeq)}

\* Query lists that vary the queries, the result columns or the parameters.
QueryLists ==
    SeqsUpTo({QueryA, QueryB, QueryC}, MaxSeq)
      \cup {<<Query("List", ":many", Nil, cs, <<>>, <<>>)>> :
               cs \in SeqsUpTo({QColA, QColB}, MaxSeq)}
      \cup {<<Query("Del", ":exec", Nil, <<>>,
                    [i \in DOMAIN cs |-> Parameter(i, cs[i])], <<>>)>> :
               cs \in SeqsUpTo({QColA, QColB}, MaxSeq)}

----------------------------------------------------------------------------
(* Specifications *)

InitFixed ==
    /\ heap = Heap
    /\ outs = <<>>
    /\ pc = "running"

\* The whole request: a catalog with an enum, two queries, both plugins, any
\* overrides, and any outcome of the two library calls.
Init ==
    /\ InitFixed
    /\ r = [Catalog |-> Catalog(public, <<SchA, SchB>>), Queries |-> <<QueryA, QueryB>>]
    /\ \E ovs \in SeqsUpTo({OvA, OvB}, MaxSeq),
          name \in {"p", "q", "builtin"}, options \in {"", "a: 1"} :
         settings = CombinedSettings(<<PluginA, PluginB>>, ovs, name, options)
    /\ marshalErrs \in SUBSET {pluginGoType(Override(<<>>, GoTypeA))}
    /\ convertErrs \in SUBSET {"a: 1"}

Spec == Init /\ [][Next]_vars

\* pluginOverride on every column path.
InitOverride ==
    /\ InitFixed
    /\ \E ds \in {public, <<>>} : r = EmptyResult(ds)
    /\ \E path \in Paths :
         settings = Bare(CombinedSettings(<<>>, <<Override(path, GoTypeA)>>, "builtin", ""))
    /\ marshalErrs = {}
    /\ convertErrs = {}

SpecOverride == InitOverride /\ [][Next]_vars

\* pluginCodegen on every plugin registry.
InitCodegen ==
    /\ InitFixed
    /\ r = EmptyResult(public)
    /\ \E plugins \in SeqsUpTo(PluginEntries, MaxPlugins) :
         settings = Bare(CombinedSettings(plugins, <<>>, "p", "a: 1"))
    /\ marshalErrs = {}
    /\ convertErrs = {}

SpecCodegen == InitCodegen /\ [][Next]_vars

\* The column translations on every declared length and on resolved and
\* unresolved types.
InitColumn ==
    /\ InitFixed
    /\ \E l1 \in OptLengths, l2 \in OptLengths,
          type \in {<<>>, <<Ident("db", "pg_catalog", "int4")>>},
          dataType \in {"", "any"} :
         r = [Catalog |-> Catalog(public,
                  <<CatalogSchema("public", <<>>,
                       <<CatalogTable("items", <<CatalogColumn("c", "text", l1)>>)>>)>>),
              Queries |-> <<Query("Get", ":one", Nil,
                                  <<QueryColumn("c", type, dataType, l2)>>,
                                  <<Parameter(1, QueryColumn("p", type, dataType, l2)),
                                    Parameter(2, QColB)>>,
                                  <<>>)>>]
    /\ settings = Bare(CombinedSettings(<<PluginA>>, <<>>, "builtin", ""))
    /\ marshalErrs = {}
    /\ convertErrs = {}

SpecColumn == InitColumn /\ [][Next]_vars

\* The walks over the catalog, the queries and the overrides.
InitShape ==
    /\ InitFixed
    /\ \/ \E c \in Catalogs : r = [Catalog |-> c, Queries |-> <<QueryA, QueryB>>]
       \/ \E qs \in QueryLists :
            r = [Catalog |-> Catalog(public, <<SchA, SchB>>), Queries |-> qs]
    /\ \E ovs \in SeqsUpTo({OvA, OvB}, MaxSeq) :
         settings = Bare(CombinedSettings(<<PluginA>>, ovs, "builtin", ""))
    /\ marshalErrs = {}
    /\ convertErrs = {}

SpecShape == InitShape /\ [][Next]_vars

----------------------------------------------------------------------------
(* Properties *)

Plugins == settings.Global.Plugins

\* The registry entries named like the requested plugin.
Matching == {i \in 1..Len(Plugins) : Plugins[i].Name = settings.Codegen.Plugin}

First(S) == CHOOSE i \in S : \A j \in S : i <= j

Populated(x) == x # <<>>

\* C1: every returned Codegen target has at most one execution descriptor:
\* on a registry match the entry's environment is copied and exactly one of
\* Process and Wasm is populated; without a match neither is populated, Env
\* is empty and Out, Plugin and Options are still set.
C1_TaggedUnion ==
    \A n \in 1..Len(outs) :
      LET cg == outs[n].Settings.Codegen
      IN /\ ~(Populated(cg.Process) /\ Populated(cg.Wasm))
         /\ Matching # {} =>
              /\ cg.Env = Plugins[First(Matching)].Env
              /\ Populated(cg.Process) # Populated(cg.Wasm)
         /\ Matching = {} =>
              /\ ~Populated(cg.Process) /\ ~Populated(cg.Wasm)
              /\ cg.Env = Nil
              /\ cg.Out = settings.Codegen.Out
              /\ cg.Plugin = settings.Codegen.Plugin
              /\ cg.Options = <<"json", settings.Codegen.Options>>

\* A source column and its translation agree on the declared length: no
\* declared length gives -1, a declared length n >= 0 gives n, and -1 is
\* given only for no declared length.
LengthKept(src, out) ==
    /\ src.Length = <<>> => out.Length = -1
    /\ (src.Length # <<>> /\ NonNegative(src.Length[1])) =>
         /\ FromInt32(out.Length) = src.Length[1]
         /\ out.Length # -1

\* C2: every column translated by pluginCatalog or pluginQueryColumn keeps
\* its declared length, and has length -1 if and only if none was declared.
C2_LengthSentinel ==
    \A n \in 1..Len(outs) :
      /\ \A i \in DOMAIN r.Catalog.Schemas :
           \A j \in DOMAIN r.Catalog.Schemas[i].Tables :
             \A k \in DOMAIN r.Catalog.Schemas[i].Tables[j].Columns :
               LengthKept(r.Catalog.Schemas[i].Tables[j].Columns[k],
                          outs[n].Catalog.Schemas[i].Tables[j].Columns[k])
      /\ \A i \in DOMAIN r.Queries :
           /\ \A k \in DOMAIN r.Queries[i].Columns :
                LengthKept(r.Queries[i].Columns[k], outs[n].Queries[i].Columns[k])
           /\ \A k \in DOMAIN r.Queries[i].Params :
                LengthKept(r.Queries[i].Params[k].Column,
                           outs[n].Queries[i].Params[k].Column)

\* The number of dots of a path, counted without splitting it.
Dots(path) == Cardinality({i \in 1..Len(path) : path[i] = "."})

\* The k-th of the segments of a path that the dots separate.
Segment(path, k) ==
    LET dots == {i \in 1..Len(path) : path[i] = "."}
        upTo(i) == Cardinality({d \in dots : d < i})
    IN [i \in 1..Cardinality({i \in 1..Len(path) : path[i] # "." /\ upTo(i) = k - 1}) |->
          path[CHOOSE m \in 1..Len(path) :
                 /\ path[m] # "." /\ upTo(m) = k - 1
                 /\ Cardinality({x \in 1..m : path[x] # "." /\ upTo(x) = k - 1}) = i]]

\* C3: pluginOverride resolves a path by its number of segments: T.C gives
\* the default schema, table T and column C; S.T.C gives schema S; K.S.T.C
\* gives catalog K; any other number of segments gives an empty table and
\* column; the raw Column is always the path.
C3_OverridePath ==
    \A n \in 1..Len(outs) :
      \A i \in DOMAIN settings.Overrides :
        LET path == settings.Overrides[i].Column
            o    == outs[n].Settings.Overrides[i]
            seg(k) == Segment(path, k)
        IN /\ o.Column = path
           /\ Dots(path) = 1 =>
                /\ o.Table = [Catalog |-> <<>>, Schema |-> r.Catalog.DefaultSchema,
                              Name |-> seg(1)]
                /\ o.ColumnName = seg(2)
           /\ Dots(path) = 2 =>
                /\ o.Table = [Catalog |-> <<>>, Schema |-> seg(1), Name |-> seg(2)]
                /\ o.ColumnName = seg(3)
           /\ Dots(path) = 3 =>
                /\ o.Table = [Catalog |-> seg(1), Schema |-> seg(2), Name |-> seg(3)]
                /\ o.ColumnName = seg(4)
           /\ Dots(path) \notin {1, 2, 3} =>
                /\ o.Table = [Catalog |-> <<>>, Schema |-> <<>>, Name |-> <<>>]
                /\ o.ColumnName = <<>>

\* An invocation has returned for a four-segment path.
C3_Witness ==
    /\ outs # <<>>
    /\ settings.Overrides[1].Column = <<"a", ".", "b", ".", "b", ".", "a">>
    /\ outs[1].Settings.Overrides[1].Table.Catalog = <<"a">>

Names(seq) == [i \in DOMAIN seq |-> seq[i].Name]

\* The names of the types of a kind, in the order of the schema's types.
NamesOfKind(types, kind) ==
    LET idx == {i \in DOMAIN types : types[i].kind = kind}
        nth(k) == CHOOSE i \in idx : Cardinality({j \in idx : j <= i}) = k
    IN [k \in 1..Cardinality(idx) |-> types[nth(k)].Name]

\* C4: every sequence is translated element by element, count and order
\* kept: schemas, tables, columns, queries, result columns, parameters and
\* overrides; enums and composite types are the types of their kind in the
\* order of the schema's types.
C4_OrderPreserved ==
    \A n \in 1..Len(outs) :
      LET out == outs[n]
      IN /\ Names(out.Catalog.Schemas) = Names(r.Catalog.Schemas)
         /\ \A i \in DOMAIN r.Catalog.Schemas :
              LET s == r.Catalog.Schemas[i]
                  t == out.Catalog.Schemas[i]
              IN /\ [j \in DOMAIN t.Tables |-> t.Tables[j].Rel.Name]
                      = [j \in DOMAIN s.Tables |-> s.Tables[j].Rel.Name]
                 /\ \A j \in DOMAIN s.Tables :
                      Names(t.Tables[j].Columns) = Names(s.Tables[j].Columns)
                 /\ Names(t.Enums) = NamesOfKind(s.Types, "Enum")
                 /\ Names(t.CompositeTypes) = NamesOfKind(s.Types, "CompositeType")
         /\ Names(out.Queries) = [i \in DOMAIN r.Queries |-> r.Queries[i].Metadata.Name]
         /\ \A i \in DOMAIN r.Queries :
              /\ Names(out.Queries[i].Columns) = Names(r.Queries[i].Columns)
              /\ [k \in DOMAIN out.Queries[i].Params |->
                     out.Queries[i].Params[k].Column.Name]
                   = [k \in DOMAIN r.Queries[i].Params |->
                        r.Queries[i].Params[k].Column.Name]
         /\ [i \in DOMAIN out.Settings.Overrides |-> out.Settings.Overrides[i].Column]
              = [i \in DOMAIN settings.Overrides |-> settings.Overrides[i].Column]

\* An invocation has returned for a table with two different columns, a
\* schema with types of both kinds, two queries and two different overrides.
C4_Witness ==
    /\ outs # <<>>
    /\ \E i \in DOMAIN r.Catalog.Schemas :
         /\ \E j \in DOMAIN r.Catalog.Schemas[i].Tables :
              LET cols == r.Catalog.Schemas[i].Tables[j].Columns
              IN Len(cols) = 2 /\ cols[1].Name # cols[2].Name
         /\ LET types == r.Catalog.Schemas[i].Types
            IN Len(types) = 2 /\ types[1].kind # types[2].kind
    /\ Len(r.Queries) = 2
    /\ Len(settings.Overrides) = 2
    /\ settings.Overrides[1].Column # settings.Overrides[2].Column

\* The type of a translated query column: the resolved type field for field,
\* else the raw datatype as a name without catalog and schema.
TypeKept(src, out) ==
    /\ out.Type # <<>>
    /\ src.Type # <<>> =>
         /\ out.Type[1].Catalog = src.Type[1].Catalog
         /\ out.Type[1].Schema = src.Type[1].Schema
         /\ out.Type[1].Name = src.Type[1].Name
    /\ src.Type = <<>> =>
         /\ out.Type[1].Catalog = ""
         /\ out.Type[1].Schema = ""
         /\ out.Type[1].Name = src.DataType

\* C5: the type of every translated query column and parameter column is
\* present: the resolved type if the source has one, else the raw datatype.
C5_TypeFallback ==
    \A n \in 1..Len(outs) :
      \A i \in DOMAIN r.Queries :
        /\ \A k \in DOMAIN r.Queries[i].Columns :
             TypeKept(r.Queries[i].Columns[k], outs[n].Queries[i].Columns[k])
        /\ \A k \in DOMAIN r.Queries[i].Params :
             TypeKept(r.Queries[i].Params[k].Column, outs[n].Queries[i].Params[k].Column)

\* An invocation has returned for a query whose column and parameter have no
\* resolved type but a raw datatype.
C5_Witness ==
    /\ outs # <<>>
    /\ r.Queries[1].Columns[1].Type = <<>>
    /\ r.Queries[1].Columns[1].DataType = "any"
    /\ r.Queries[1].Params[1].Column.Type = <<>>

\* C6: a translated query has an insert target if and only if the source
\* query has one, and then it is the source's catalog, schema and name.
C6_InsertTarget ==
    \A n \in 1..Len(outs) :
      \A i \in DOMAIN r.Queries :
        LET src == r.Queries[i].InsertIntoTable
            out == outs[n].Queries[i].InsertIntoTable
        IN /\ (out # <<>>) <=> (src # <<>>)
           /\ src # <<>> =>
                /\ out[1].Catalog = src[1].Catalog
                /\ out[1].Schema = src[1].Schema
                /\ out[1].Name = src[1].Name

\* An invocation has returned for a query with an insert target and one
\* without.
C6_Witness ==
    /\ outs # <<>>
    /\ \E i, j \in DOMAIN r.Queries :
         /\ r.Queries[i].InsertIntoTable # <<>>
         /\ r.Queries[j].InsertIntoTable = <<>>
         /\ r.Queries[i].Metadata.Cmd = r.Queries[j].Metadata.Cmd

\* C7: a write through a map or slice reachable from one returned request
\* changes neither the input nor the other returned request.
C7_Independent ==
    [][heap' # heap =>
         /\ InputView' = InputView
         /\ \A i, j \in 1..Len(outs) :
              i # j => (OutputView(i)' = OutputView(i) \/ OutputView(j)' = OutputView(j))]_vars

\* C8: an invocation of codeGenRequest, returning or aborting, leaves the
\* compiled model and the settings as they were.
C8_InputUnchanged ==
    [][(outs' # outs \/ pc' # pc) =>
         /\ r' = r
         /\ settings' = settings
         /\ InputView' = InputView]_vars

\* An invocation has returned and the input is as constructed.
C8_Witness ==
    /\ outs # <<>>
    /\ RefsOfInput(r, settings) # {}
    /\ InputView = [a \in RefsOfInput(r, settings) |-> Heap[a]]

\* Some override's type descriptor does not serialize.
MarshalFails ==
    \E i \in DOMAIN settings.Overrides :
      pluginGoType(settings.Overrides[i]) \in marshalErrs

\* The option blob does not convert.
ConvertFails == settings.Codegen.Options \in convertErrs

\* C9: codeGenRequest aborts only when the serialization of an override's
\* type descriptor fails.
C9_OneAbortPath == pc = "aborted" => MarshalFails

\* C9 as amended: codeGenRequest aborts exactly when the serialization of an
\* override's type descriptor or the conversion of the option blob fails;
\* otherwise it returns a request, whatever the override paths and the
\* plugin name.
C9_TwoAbortPaths ==
    /\ pc = "aborted" => (MarshalFails \/ ConvertFails)
    /\ outs # <<>> => ~(MarshalFails \/ ConvertFails)

\* An invocation has aborted although every descriptor serializes.
C9_Witness == pc = "aborted" /\ ~MarshalFails /\ Len(settings.Overrides) = 2

\* C10: when several registry entries are named like the requested plugin,
\* Env, Process and Wasm all come from the first of them.
C10_FirstMatch ==
    \A n \in 1..Len(outs) :
      Cardinality(Matching) > 1 =>
        LET cg == outs[n].Settings.Codegen
            p  == Plugins[First(Matching)]
        IN /\ cg.Env = p.Env
           /\ Populated(cg.Process) <=> Populated(p.Process)
           /\ Populated(cg.Process) => cg.Process[1].Cmd = p.Process[1].Cmd
           /\ Populated(cg.Wasm) <=> Populated(p.WASM)
           /\ Populated(cg.Wasm) =>
                /\ cg.Wasm[1].Url = p.WASM[1].URL
                /\ cg.Wasm[1].Sha256 = p.WASM[1].SHA256

\* An invocation has returned for a registry with two matching entries that
\* differ in every field.
C10_Witness ==
    /\ outs # <<>>
    /\ Matching = {1, 2}
    /\ Plugins[1].Env # Plugins[2].Env
    /\ Populated(Plugins[1].Process) # Populated(Plugins[2].Process)
    /\ Populated(Plugins[1].WASM) # Populated(Plugins[2].WASM)

====
